---- MODULE Spec2Model ----
(***************************************************************************)
(* Register-access and privilege-transition layer of the acorn kernel      *)
(* (RISC-V, 64-bit).  The model covers                                     *)
(*   - memset.rs : KERNEL_BASE_ADDRESS, PHYSICAL_MEMORY_LIMIT, ValidAddress*)
(*   - arch.rs   : read_csr!/write_csr!, the field-typed register views,   *)
(*                 the address-typed writers, make_satp                    *)
(*   - entry.rs  : _entry, spin                                            *)
(*   - start::start (declared in main.rs, called by _entry): the steps of  *)
(*     the privilege-transition sequencer, as section 4.4 of the           *)
(*     specification gives them.                                           *)
(*                                                                         *)
(* A machine word (usize, 64 bits) is represented by the set of the bit    *)
(* positions that are 1 in it: TLC's integers are 32 bits wide and cannot  *)
(* hold 0x80000000, let alone 8 << 60.                                     *)
(***************************************************************************)
EXTENDS Integers, FiniteSets, Sequences, TLC

VARIABLES
    regs,      \* the hart's CSR file: CSR address -> word
    lastw,     \* history: per CSR, the argument of the last writer call on it, or None
    csrw,      \* history: the number of csrw instructions executed
    call,      \* the last call made into the layer: [op, arg, ret]
    held,      \* the ValidAddress the caller holds (a Copy value), or None
    uses,      \* history: the register writes the held ValidAddress was handed to
    nops,      \* number of calls made so far (bounded by MaxOps, MaxAddrOps)
    pc,        \* position of the boot sequence on this hart
    sp,        \* the stack pointer _entry has set up, as a byte offset above stack0
    entry,     \* the raw supervisor entry address the boot image supplies
    verr,      \* a validator returned Err during the boot sequence
    started    \* the single-shot flag of the boot sequencer

vars == <<regs, lastw, csrw, call, held, uses, nops, pc, sp, entry, verr, started>>

(***************************************************************************)
(* Bounds of the model                                                     *)
(***************************************************************************)
MaxOps == 2        \* calls explored from reset in the register specifications
MaxAddrOps == 3    \* calls explored in the address specification
MaxHart == 2       \* hart ids 0 .. MaxHart

(***************************************************************************)
(* usize arithmetic on bit sets                                            *)
(***************************************************************************)
XLEN == 64

Zero == {}
AllOnes == 0 .. (XLEN - 1)

\* an integer literal 0 <= n < 2^31 as a word
Lit(n) == {k \in 0 .. 30 : (n \div (2 ^ k)) % 2 = 1}

\* w << n : bits shifted out at the top are lost
Shl(w, n) == {b + n : b \in {x \in w : x + n < XLEN}}

\* w >> n : logical shift of an unsigned word
Shr(w, n) == {b - n : b \in {x \in w : x >= n}}

BitOr(a, b) == a \cup b

\* a < b, unsigned: the highest bit in which they differ is set in b
Lt(a, b) == \E k \in b \ a : \A j \in a \ b : j < k

Ge(a, b) == ~Lt(a, b)

RECURSIVE AddCarry(_, _, _, _)
AddCarry(a, b, k, c) ==
    IF k = XLEN THEN {}
    ELSE LET s == (IF k \in a THEN 1 ELSE 0) + (IF k \in b THEN 1 ELSE 0) + c
         IN  (IF s % 2 = 1 THEN {k} ELSE {}) \cup AddCarry(a, b, k + 1, s \div 2)

\* a + b on usize
Add(a, b) == AddCarry(a, b, 0, 0)

\* the number a word below 2^31 stands for
RECURSIVE ToInt(_)
ToInt(w) == IF w = {} THEN 0 ELSE LET k == CHOOSE x \in w : TRUE IN 2 ^ k + ToInt(w \ {k})

(***************************************************************************)
(* memset.rs                                                               *)
(***************************************************************************)
\* 0x80000000
KERNEL_BASE_ADDRESS == Shl(Lit(8), 28)

PHYSICAL_MEMORY_LIMIT == Add(KERNEL_BASE_ADDRESS, Lit(128 * 1024 * 1024))

\* the tuple struct ValidAddress(usize)
ValidAddress(addr) == [f0 |-> addr]

Ok(v) == [tag |-> "Ok", val |-> v]

Err(msg) == [tag |-> "Err", msg |-> msg]

\* mutants of the range check: a strict lower bound, an inclusive upper bound
ValidAddress_new_strict_base(addr) ==
    IF Lt(KERNEL_BASE_ADDRESS, addr) /\ Lt(addr, PHYSICAL_MEMORY_LIMIT)
    THEN Ok(ValidAddress(addr))
    ELSE Err("Invalid memory address")

ValidAddress_new_inclusive_limit(addr) ==
    IF Ge(addr, KERNEL_BASE_ADDRESS) /\ Ge(PHYSICAL_MEMORY_LIMIT, addr)
    THEN Ok(ValidAddress(addr))
    ELSE Err("Invalid memory address")

\* mutant: the upper bound of the window is not checked
ValidAddress_new_no_limit(addr) ==
    IF Ge(addr, KERNEL_BASE_ADDRESS)
    THEN Ok(ValidAddress(addr))
    ELSE Err("Invalid memory address")

ValidAddress_new(addr) ==
    IF Ge(addr, KERNEL_BASE_ADDRESS) /\ Lt(addr, PHYSICAL_MEMORY_LIMIT)
    THEN Ok(ValidAddress(addr))
    ELSE Err("Invalid memory address")

ValidAddress_get(self) == self.f0

(***************************************************************************)
(* arch.rs: CSR addresses                                                  *)
(***************************************************************************)
MHARTID == 3860
MSTATUS == 768
MEDELEG == 770
MIDELEG == 771
MIE == 772
MCOUNTEREN == 774
MENVCFG == 778
MEPC == 833
SSTATUS == 256
SIE == 260
STVEC == 261
SEPC == 321
SCAUSE == 322
STVAL == 323
SIP == 324
SATP == 384
PMPCFG0 == 928
PMPADDR0 == 944

CSRs == {MHARTID, MSTATUS, MEDELEG, MIDELEG, MIE, MCOUNTEREN, MENVCFG, MEPC,
         SSTATUS, SIE, STVEC, SEPC, SCAUSE, STVAL, SIP, SATP, PMPCFG0, PMPADDR0}

(***************************************************************************)
(* arch.rs: the register primitive                                         *)
(***************************************************************************)
\* read_csr!(csr): csrr on the register file
read_csr(file, csr) == file[csr]

\* mutant: a read-modify-write that ORs the new bits into the old word
write_csr_rmw(file, csr, val) == [file EXCEPT ![csr] = BitOr(@, val)]

\* write_csr!(csr, val): one csrw, the whole word is replaced
write_csr(file, csr, val) == [file EXCEPT ![csr] = val]

None == [tag |-> "None"]

Some(v) == [tag |-> "Some", val |-> v]

NoCall == [op |-> "none", arg |-> None, ret |-> None]

\* the values registers may hold when the layer is first used
ResetWords == {Zero, AllOnes}

\* the part of the state the boot sequence owns, while it is not running
BootIdle ==
    /\ pc = "Idle"
    /\ sp = 0
    /\ entry = Zero
    /\ verr = FALSE
    /\ started = FALSE

BootUnchanged == UNCHANGED <<pc, sp, entry, verr, started>>

InitFile ==
    /\ \E r \in ResetWords : regs = [c \in CSRs |-> IF c = MHARTID THEN Zero ELSE r]
    /\ lastw = [c \in CSRs |-> None]
    /\ csrw = 0
    /\ call = NoCall
    /\ held = None
    /\ uses = 0
    /\ nops = 0

(***************************************************************************)
(* arch.rs: the #[repr(usize)] enums, each a table from variant name to     *)
(* discriminant                                                            *)
(***************************************************************************)
\* const MPP_MASK: usize = 0b11 << 11
MPP_MASK == Shl(Lit(3), 11)

PrivilegeMode ==
    [ UMV |-> Shl(Lit(0), 11),
      SMV |-> Shl(Lit(1), 11),
      MMV |-> Shl(Lit(3), 11) ]

InterruptEnable ==
    [ UIE |-> Shl(Lit(1), 0),
      SIE |-> Shl(Lit(1), 1),
      MIE |-> Shl(Lit(1), 3) ]

PreviousInterruptEnable ==
    [ UPIE |-> Shl(Lit(1), 4),
      SPIE |-> Shl(Lit(1), 5),
      MPIE |-> Shl(Lit(1), 7) ]

FloatingPointStatus ==
    [ OFF |-> Shl(Lit(0), 13),
      INITIAL |-> Shl(Lit(1), 13),
      CLEAN |-> Shl(Lit(2), 13),
      DIRTY |-> Shl(Lit(3), 13) ]

ExtensionStatus ==
    [ OFF |-> Shl(Lit(0), 15),
      INITIAL |-> Shl(Lit(1), 15),
      CLEAN |-> Shl(Lit(2), 15),
      DIRTY |-> Shl(Lit(3), 15) ]

AdditionalStatus ==
    [ MPRV |-> Shl(Lit(1), 17),
      SUM |-> Shl(Lit(1), 18),
      MXR |-> Shl(Lit(1), 19),
      TVM |-> Shl(Lit(1), 20),
      TW |-> Shl(Lit(1), 21),
      TSR |-> Shl(Lit(1), 22) ]

MedelegVal ==
    [ InstructionAddressMisaligned |-> Shl(Lit(1), 0),
      InstructionAccessFault |-> Shl(Lit(1), 1),
      IllegalInstruction |-> Shl(Lit(1), 2),
      Breakpoint |-> Shl(Lit(1), 3),
      LoadAddressMisaligned |-> Shl(Lit(1), 4),
      LoadAccessFault |-> Shl(Lit(1), 5),
      StoreAddressMisaligned |-> Shl(Lit(1), 6),
      StoreAccessFault |-> Shl(Lit(1), 7),
      EnvironmentCallFromUMode |-> Shl(Lit(1), 8),
      EnvironmentCallFromSMode |-> Shl(Lit(1), 9),
      InstructionPageFault |-> Shl(Lit(1), 12),
      LoadPageFault |-> Shl(Lit(1), 13),
      StorePageFault |-> Shl(Lit(1), 15) ]

MidelegVal ==
    [ SSIE |-> Shl(Lit(1), 1),
      STIE |-> Shl(Lit(1), 5),
      SEIE |-> Shl(Lit(1), 9) ]

MieVal ==
    [ MSIE |-> Shl(Lit(1), 3),
      MTIE |-> Shl(Lit(1), 7),
      MEIE |-> Shl(Lit(1), 11),
      SSIE |-> Shl(Lit(1), 1),
      STIE |-> Shl(Lit(1), 5),
      SEIE |-> Shl(Lit(1), 9) ]

MCounterenVal ==
    [ CY |-> Shl(Lit(1), 0),
      TM |-> Shl(Lit(1), 1),
      IR |-> Shl(Lit(1), 2),
      HPM3 |-> Shl(Lit(1), 3),
      HPM4 |-> Shl(Lit(1), 4),
      HPM5 |-> Shl(Lit(1), 5),
      HPM6 |-> Shl(Lit(1), 6),
      HPM7 |-> Shl(Lit(1), 7),
      HPM8 |-> Shl(Lit(1), 8),
      HPM9 |-> Shl(Lit(1), 9),
      HPM10 |-> Shl(Lit(1), 10),
      HPM11 |-> Shl(Lit(1), 11),
      HPM12 |-> Shl(Lit(1), 12),
      HPM13 |-> Shl(Lit(1), 13),
      HPM14 |-> Shl(Lit(1), 14),
      HPM15 |-> Shl(Lit(1), 15),
      HPM16 |-> Shl(Lit(1), 16),
      HPM17 |-> Shl(Lit(1), 17),
      HPM18 |-> Shl(Lit(1), 18),
      HPM19 |-> Shl(Lit(1), 19),
      HPM20 |-> Shl(Lit(1), 20),
      HPM21 |-> Shl(Lit(1), 21),
      HPM22 |-> Shl(Lit(1), 22),
      HPM23 |-> Shl(Lit(1), 23),
      HPM24 |-> Shl(Lit(1), 24),
      HPM25 |-> Shl(Lit(1), 25),
      HPM26 |-> Shl(Lit(1), 26),
      HPM27 |-> Shl(Lit(1), 27),
      HPM28 |-> Shl(Lit(1), 28),
      HPM29 |-> Shl(Lit(1), 29),
      HPM30 |-> Shl(Lit(1), 30),
      HPM31 |-> Shl(Lit(1), 31) ]

MenvcfgVal ==
    [ FIOM |-> Shl(Lit(1), 0),
      CBIE |-> Shl(Lit(1), 1),
      CBZE |-> Shl(Lit(1), 2),
      PMA |-> Shl(Lit(1), 3),
      PMA1 |-> Shl(Lit(1), 4),
      PMA2 |-> Shl(Lit(1), 5),
      PMA3 |-> Shl(Lit(1), 6),
      PMA4 |-> Shl(Lit(1), 7),
      PMA5 |-> Shl(Lit(1), 8),
      PMA6 |-> Shl(Lit(1), 9),
      PMA7 |-> Shl(Lit(1), 10),
      PMA8 |-> Shl(Lit(1), 11),
      PMA9 |-> Shl(Lit(1), 12),
      PMA10 |-> Shl(Lit(1), 13),
      PMA11 |-> Shl(Lit(1), 14),
      PMA12 |-> Shl(Lit(1), 15),
      PMA13 |-> Shl(Lit(1), 16),
      PMA14 |-> Shl(Lit(1), 17),
      PMA15 |-> Shl(Lit(1), 18) ]

PrivilegeModeSStatus ==
    [ SPP |-> Shl(Lit(1), 8) ]

InterruptEnableSStatus ==
    [ UIE |-> Shl(Lit(1), 0),
      SIE |-> Shl(Lit(1), 1) ]

PreviousInterruptEnableSStatus ==
    [ UPIE |-> Shl(Lit(1), 4),
      SPIE |-> Shl(Lit(1), 5) ]

SieVal ==
    [ SSIE |-> Shl(Lit(1), 1),
      STIE |-> Shl(Lit(1), 5),
      SEIE |-> Shl(Lit(1), 9) ]

ScauseVal ==
    [ InstructionAddressMisaligned |-> Lit(0),
      InstructionAccessFault |-> Lit(1),
      IllegalInstruction |-> Lit(2),
      Breakpoint |-> Lit(3),
      LoadAddressMisaligned |-> Lit(4),
      LoadAccessFault |-> Lit(5),
      StoreAddressMisaligned |-> Lit(6),
      StoreAccessFault |-> Lit(7),
      EnvironmentCallFromUMode |-> Lit(8),
      EnvironmentCallFromSMode |-> Lit(9),
      InstructionPageFault |-> Lit(12),
      LoadPageFault |-> Lit(13),
      StorePageFault |-> Lit(15),
      UserSoftwareInterrupt |-> BitOr(Shl(Lit(8), 60), Lit(0)),
      SupervisorSoftwareInterrupt |-> BitOr(Shl(Lit(8), 60), Lit(1)),
      UserTimerInterrupt |-> BitOr(Shl(Lit(8), 60), Lit(4)),
      SupervisorTimerInterrupt |-> BitOr(Shl(Lit(8), 60), Lit(5)),
      UserExternalInterrupt |-> BitOr(Shl(Lit(8), 60), Lit(8)),
      SupervisorExternalInterrupt |-> BitOr(Shl(Lit(8), 60), Lit(9)) ]

SipVal ==
    [ SSIP |-> Shl(Lit(1), 1),
      STIP |-> Shl(Lit(1), 5),
      SEIP |-> Shl(Lit(1), 9) ]

SatpMode ==
    [ Bare |-> Lit(0),
      Sv39 |-> Shl(Lit(8), 60),
      Sv48 |-> Shl(Lit(9), 60) ]

PmpcfgVal ==
    [ R |-> Shl(Lit(1), 0),
      W |-> Shl(Lit(1), 1),
      X |-> Shl(Lit(1), 2),
      A |-> Shl(Lit(1), 3),
      L |-> Shl(Lit(1), 7) ]

\* the enum types of arch.rs by name; a value of one is [ty, name]
EnumOf ==
    [ PrivilegeMode |-> PrivilegeMode,
      InterruptEnable |-> InterruptEnable,
      PreviousInterruptEnable |-> PreviousInterruptEnable,
      FloatingPointStatus |-> FloatingPointStatus,
      ExtensionStatus |-> ExtensionStatus,
      AdditionalStatus |-> AdditionalStatus,
      MedelegVal |-> MedelegVal,
      MidelegVal |-> MidelegVal,
      MieVal |-> MieVal,
      MCounterenVal |-> MCounterenVal,
      MenvcfgVal |-> MenvcfgVal,
      PrivilegeModeSStatus |-> PrivilegeModeSStatus,
      InterruptEnableSStatus |-> InterruptEnableSStatus,
      PreviousInterruptEnableSStatus |-> PreviousInterruptEnableSStatus,
      SieVal |-> SieVal,
      ScauseVal |-> ScauseVal,
      SipVal |-> SipVal,
      SatpMode |-> SatpMode,
      PmpcfgVal |-> PmpcfgVal ]

\* `self as usize` of a #[repr(usize)] enum value: every impl of to_usize
to_usize(v) == EnumOf[v.ty][v.name]

\* the values of each enum type
ValuesOf == [t \in DOMAIN EnumOf |-> {[ty |-> t, name |-> n] : n \in DOMAIN EnumOf[t]}]

\* the values of the enum types in `types`
Variants(types) == UNION {ValuesOf[t] : t \in types}

(***************************************************************************)
(* arch.rs: the traits, each the set of types with an `impl Trait for`      *)
(***************************************************************************)
MStatusField ==
    {"PrivilegeMode", "InterruptEnable", "PreviousInterruptEnable",
     "FloatingPointStatus", "ExtensionStatus", "AdditionalStatus"}

\* mutant: a status enum that also implements the delegation trait
MedelegField_with_status == {"MedelegVal", "AdditionalStatus"}

MedelegField == {"MedelegVal"}

MidelegField == {"MidelegVal"}

MieField == {"MieVal"}

MCounterenField == {"MCounterenVal"}

MenvcfgField == {"MenvcfgVal"}

SStatusField ==
    {"PrivilegeModeSStatus", "InterruptEnableSStatus", "PreviousInterruptEnableSStatus"}

SieField == {"SieVal"}

ScauseField == {"ScauseVal"}

\* arch.rs declares the trait SipField and the enum SipVal but no impl:
\* no type satisfies write_sip's bound, so write_sip cannot be called
SipField == {}

SatpField == {"SatpMode"}

PmpcfgField == {"PmpcfgVal"}

(***************************************************************************)
(* arch.rs: field-typed writers and the readers                            *)
(***************************************************************************)
\* the body of a field-typed writer: write_csr!(R, val.to_usize())
FieldWrite(file, csr, val) == write_csr(file, csr, to_usize(val))

\* pub fn write_R<T: Trait>(val: T) { write_csr!(R, val.to_usize()); }
FieldWriter(op, csr, trait) ==
    /\ nops < MaxOps
    /\ \E val \in Variants(trait) :
          /\ regs' = FieldWrite(regs, csr, val)
          /\ lastw' = [lastw EXCEPT ![csr] = Some(val)]
          /\ call' = [op |-> op, arg |-> val, ret |-> None]
    /\ csrw' = csrw + 1
    /\ nops' = nops + 1
    /\ UNCHANGED <<held, uses>>
    /\ BootUnchanged

\* pub fn read_R() -> usize { read_csr!(R) }
Reader(op, csr) ==
    /\ nops < MaxOps
    /\ call' = [op |-> op, arg |-> None, ret |-> read_csr(regs, csr)]
    /\ nops' = nops + 1
    /\ UNCHANGED <<regs, lastw, csrw, held, uses>>
    /\ BootUnchanged

read_mstatus == Reader("read_mstatus", MSTATUS)

write_mstatus == FieldWriter("write_mstatus", MSTATUS, MStatusField)

read_medeleg == Reader("read_medeleg", MEDELEG)

write_medeleg == FieldWriter("write_medeleg", MEDELEG, MedelegField)

\* mutant: the reader copied from read_medeleg with the CSR left unchanged
read_mideleg_copy_paste == Reader("read_mideleg", MEDELEG)

read_mideleg == Reader("read_mideleg", MIDELEG)

write_mideleg == FieldWriter("write_mideleg", MIDELEG, MidelegField)

read_mie == Reader("read_mie", MIE)

write_mie == FieldWriter("write_mie", MIE, MieField)

read_mcounteren == Reader("read_mcounteren", MCOUNTEREN)

write_mcounteren == FieldWriter("write_mcounteren", MCOUNTEREN, MCounterenField)

read_menvcfg == Reader("read_menvcfg", MENVCFG)

write_menvcfg == FieldWriter("write_menvcfg", MENVCFG, MenvcfgField)

read_sstatus == Reader("read_sstatus", SSTATUS)

write_sstatus == FieldWriter("write_sstatus", SSTATUS, SStatusField)

read_sie == Reader("read_sie", SIE)

write_sie == FieldWriter("write_sie", SIE, SieField)

read_scause == Reader("read_scause", SCAUSE)

write_scause == FieldWriter("write_scause", SCAUSE, ScauseField)

read_sip == Reader("read_sip", SIP)

write_sip == FieldWriter("write_sip", SIP, SipField)

read_pmpcfg0 == Reader("read_pmpcfg0", PMPCFG0)

write_pmpcfg0 == FieldWriter("write_pmpcfg0", PMPCFG0, PmpcfgField)

CsrInit == InitFile /\ BootIdle

\* write_sip is left out: with SipField empty it is never enabled
CsrNext ==
    \/ read_mstatus
    \/ write_mstatus
    \/ read_medeleg
    \/ write_medeleg
    \/ read_mideleg
    \/ write_mideleg
    \/ read_mie
    \/ write_mie
    \/ read_mcounteren
    \/ write_mcounteren
    \/ read_menvcfg
    \/ write_menvcfg
    \/ read_sstatus
    \/ write_sstatus
    \/ read_sie
    \/ write_sie
    \/ read_scause
    \/ write_scause
    \/ read_sip
    \/ read_pmpcfg0
    \/ write_pmpcfg0

SpecCsr == CsrInit /\ [][CsrNext]_vars

(***************************************************************************)
(* Claims about the field-typed views (SpecCsr)                            *)
(***************************************************************************)
\* the family of each field-typed register, as the sections of arch.rs
\* declare them: the enum types that belong to the register
OwnFamily ==
    (MSTATUS :> {"PrivilegeMode", "InterruptEnable", "PreviousInterruptEnable",
                 "FloatingPointStatus", "ExtensionStatus", "AdditionalStatus"})
    @@ (MEDELEG :> {"MedelegVal"})
    @@ (MIDELEG :> {"MidelegVal"})
    @@ (MIE :> {"MieVal"})
    @@ (MCOUNTEREN :> {"MCounterenVal"})
    @@ (MENVCFG :> {"MenvcfgVal"})
    @@ (SSTATUS :> {"PrivilegeModeSStatus", "InterruptEnableSStatus",
                    "PreviousInterruptEnableSStatus"})
    @@ (SIE :> {"SieVal"})
    @@ (SCAUSE :> {"ScauseVal"})
    @@ (SIP :> {"SipVal"})
    @@ (PMPCFG0 :> {"PmpcfgVal"})

\* the bit patterns of each register's own family
FamilyPatterns ==
    [c \in DOMAIN OwnFamily |->
        UNION {{EnumOf[t][n] : n \in DOMAIN EnumOf[t]} : t \in OwnFamily[c]}]

\* the writer of each field-typed register
WriterOf ==
    (MSTATUS :> "write_mstatus") @@ (MEDELEG :> "write_medeleg")
    @@ (MIDELEG :> "write_mideleg") @@ (MIE :> "write_mie")
    @@ (MCOUNTEREN :> "write_mcounteren") @@ (MENVCFG :> "write_menvcfg")
    @@ (SSTATUS :> "write_sstatus") @@ (SIE :> "write_sie")
    @@ (SCAUSE :> "write_scause") @@ (SIP :> "write_sip")
    @@ (PMPCFG0 :> "write_pmpcfg0")

\* C3: a variant of one register's family is never written through another
\* register's writer: the value last passed to write_R is of one of R's own
\* enum types, and R holds a bit pattern of its own family, unless R has not
\* been written at all.
C3_NoCrossFamilyWrite ==
    \A c \in DOMAIN OwnFamily :
        lastw[c] # None =>
            /\ lastw[c].val.ty \in OwnFamily[c]
            /\ regs[c] \in FamilyPatterns[c]

\* two registers whose families share bit positions were both written,
\* each through its own writer
C3_Witness ==
    /\ call.op = "write_medeleg"
    /\ lastw[MEDELEG] = Some([ty |-> "MedelegVal", name |-> "LoadPageFault"])
    /\ lastw[MSTATUS] = Some([ty |-> "FloatingPointStatus", name |-> "INITIAL"])
    /\ regs[MEDELEG] = {13}
    /\ regs[MSTATUS] = {13}

\* C4: every field-typed writer replaces the whole register: a step that is
\* a call write_R(v) leaves R equal to v.to_usize() whatever R held, executes
\* exactly one csrw and changes no other register.
C4_WriterReplacesRegister ==
    [][\A c \in DOMAIN WriterOf :
          call'.op = WriterOf[c] =>
              /\ regs'[c] = to_usize(call'.arg)
              /\ csrw' = csrw + 1
              /\ \A d \in CSRs \ {c} : regs'[d] = regs[d]]_vars

\* mstatus held a non-zero pattern (all ones at reset, then MPIE) and a
\* second write left exactly the new variant's pattern
C4_Witness ==
    /\ call.op = "write_mstatus"
    /\ call.arg = [ty |-> "PrivilegeMode", name |-> "SMV"]
    /\ regs[MSTATUS] = {11}
    /\ regs[MIE] = AllOnes
    /\ csrw = 2

\* C10: delegation round trip: with a pattern written through write_medeleg
\* (write_mideleg) and no later write to that register, read_medeleg
\* (read_mideleg) returns exactly the pattern written.
C10_DelegationRoundTrip ==
    /\ (call.op = "read_medeleg" /\ lastw[MEDELEG] # None)
          => call.ret = to_usize(lastw[MEDELEG].val)
    /\ (call.op = "read_mideleg" /\ lastw[MIDELEG] # None)
          => call.ret = to_usize(lastw[MIDELEG].val)

\* mideleg was written over an all-ones reset value and read back
C10_Witness ==
    /\ call.op = "read_mideleg"
    /\ lastw[MIDELEG] = Some([ty |-> "MidelegVal", name |-> "STIE"])
    /\ call.ret = {5}
    /\ regs[MEDELEG] = AllOnes

(***************************************************************************)
(* arch.rs: SATP composition (SpecSatp)                                    *)
(***************************************************************************)
\* mutants: a page-offset width of 13 bits; the base not shifted at all
make_satp_shift_13(pagetable, mode) == BitOr(to_usize(mode), Shr(pagetable, 13))

make_satp_unshifted(pagetable, mode) == BitOr(to_usize(mode), pagetable)

\* pub fn make_satp<T: SatpField>(pagetable: usize, mode: T) -> usize
make_satp(pagetable, mode) == BitOr(to_usize(mode), Shr(pagetable, 12))

\* page-table bases a caller may pass: every combination of these bits, so
\* aligned and unaligned bases, 0x80010000, and bases reaching the top bits
PagetableBits == {0, 11, 12, 16, 31, 62, 63}

PagetableInputs == SUBSET PagetableBits

\* let satp = make_satp(pagetable, mode);
MakeSatp ==
    /\ nops < MaxOps
    /\ \E pagetable \in PagetableInputs, mode \in Variants(SatpField) :
          call' = [op |-> "make_satp", arg |-> <<pagetable, mode>>,
                   ret |-> make_satp(pagetable, mode)]
    /\ nops' = nops + 1
    /\ UNCHANGED <<regs, lastw, csrw, held, uses>>
    /\ BootUnchanged

\* pub fn write_satp(val: usize) { write_csr!(SATP, val) }, on the value composed last
write_satp ==
    /\ nops < MaxOps
    /\ call.op = "make_satp"
    /\ regs' = write_csr(regs, SATP, call.ret)
    /\ lastw' = [lastw EXCEPT ![SATP] = Some(call.ret)]
    /\ csrw' = csrw + 1
    /\ call' = [op |-> "write_satp", arg |-> call.ret, ret |-> None]
    /\ nops' = nops + 1
    /\ UNCHANGED <<held, uses>>
    /\ BootUnchanged

read_satp == Reader("read_satp", SATP)

SatpInit == InitFile /\ BootIdle

SatpNext ==
    \/ MakeSatp
    \/ write_satp
    \/ read_satp

SpecSatp == SatpInit /\ [][SatpNext]_vars

(***************************************************************************)
(* Claims about SATP composition (SpecSatp)                                *)
(***************************************************************************)
\* decomposition of a SATP value: the mode is the top 4 bits, the base the
\* remaining bits shifted left by 12
ModeBits == (XLEN - 4) .. (XLEN - 1)

SatpTag(satp) == Shr(satp, XLEN - 4)

SatpBase(satp) == Shl(satp \ ModeBits, 12)

PageAligned(base) == base \cap (0 .. 11) = {}

\* the mode tags of the three translation modes
ModeTag == [Bare |-> Lit(0), Sv39 |-> Lit(8), Sv48 |-> Lit(9)]

\* C5: SATP composition is injective on page-aligned bases: decomposing
\* make_satp(base, mode) gives back exactly the mode (the only mode with
\* that tag) and the base.
C5_SatpRoundTrip ==
    (call.op = "make_satp" /\ PageAligned(call.arg[1])) =>
        /\ {m \in Variants({"SatpMode"}) : SatpTag(to_usize(m)) = SatpTag(call.ret)}
              = {call.arg[2]}
        /\ SatpBase(call.ret) = call.arg[1]

\* a page-aligned base with bit 12 and the top bit set was composed with Sv48
C5_Witness ==
    /\ call.op = "make_satp"
    /\ call.arg = <<{12, 31, 63}, [ty |-> "SatpMode", name |-> "Sv48"]>>
    /\ call.ret = {0, 19, 51, 60, 63}

\* C6: for every mode and every base, make_satp(base, mode) has the mode
\* tag (0, 8, 9) in its top 4 bits and base >> 12 below them, and the mode
\* bits and the frame-number bits do not overlap.
C6_SatpLayout ==
    call.op = "make_satp" =>
        LET base == call.arg[1]
            mode == call.arg[2]
        IN  /\ SatpTag(call.ret) = ModeTag[mode.name]
            /\ call.ret \ ModeBits = Shr(base, 12)
            /\ to_usize(mode) \cap Shr(base, 12) = {}

\* make_satp(0x80010000, Sv39) = (8 << 60) | 0x80010
C6_Witness ==
    /\ call.op = "make_satp"
    /\ call.arg = <<{16, 31}, [ty |-> "SatpMode", name |-> "Sv39"]>>
    /\ call.ret = {4, 19, 63}

(***************************************************************************)
(* The address specification: construction of ValidAddress values and the  *)
(* writers that take one.                                                  *)
(***************************************************************************)
\* raw addresses a caller may try: 0, 1, 0x7FFFFFFF, the base, inside the
\* window, the last address of the window, the limit, beyond it, and words
\* whose low 32 bits look like a window address
AddrInputs ==
    { Zero, Lit(1), Lit(2147483647),
      KERNEL_BASE_ADDRESS, BitOr(KERNEL_BASE_ADDRESS, Lit(1)),
      BitOr(KERNEL_BASE_ADDRESS, Lit(65536)),
      BitOr(KERNEL_BASE_ADDRESS, Lit(128 * 1024 * 1024 - 1)),
      PHYSICAL_MEMORY_LIMIT, BitOr(PHYSICAL_MEMORY_LIMIT, Lit(1)),
      Shl(Lit(9), 28), {32}, {32, 31}, {63}, {63, 31}, AllOnes }

\* let r = ValidAddress::new(addr); the caller keeps the value on Ok
NewAddress(max) ==
    /\ nops < max
    /\ \E addr \in AddrInputs :
          LET r == ValidAddress_new(addr) IN
          /\ call' = [op |-> "ValidAddress::new", arg |-> addr, ret |-> r]
          /\ held' = IF r.tag = "Ok" THEN r.val ELSE held
          /\ uses' = IF r.tag = "Ok" THEN 0 ELSE uses
    /\ nops' = nops + 1
    /\ UNCHANGED <<regs, lastw, csrw>>
    /\ BootUnchanged

\* write_X(addr: ValidAddress) { write_csr!(X, addr.get()) }
AddrWriter(op, csr, max) ==
    /\ nops < max
    /\ held # None
    /\ regs' = write_csr(regs, csr, ValidAddress_get(held))
    /\ lastw' = [lastw EXCEPT ![csr] = Some(held)]
    /\ csrw' = csrw + 1
    /\ call' = [op |-> op, arg |-> held, ret |-> None]
    /\ nops' = nops + 1
    /\ held' = held
    /\ uses' = uses + 1
    /\ BootUnchanged

write_mepc == AddrWriter("write_mepc", MEPC, MaxAddrOps)

write_stvec == AddrWriter("write_stvec", STVEC, MaxAddrOps)

write_sepc == AddrWriter("write_sepc", SEPC, MaxAddrOps)

write_stval == AddrWriter("write_stval", STVAL, MaxAddrOps)

AddrInit == InitFile /\ BootIdle

\* write_pmpaddr0(val: ValidAddress) { write_csr!(PMPADDR0, addr.get()) } names
\* `addr`, which is bound nowhere: the function does not build and cannot be
\* called, so pmpaddr0 is never written through this layer
AddrNext ==
    \/ NewAddress(MaxAddrOps)
    \/ write_mepc
    \/ write_stvec
    \/ write_sepc
    \/ write_stval

SpecAddr == AddrInit /\ [][AddrNext]_vars

(***************************************************************************)
(* Claims about ValidAddress (SpecAddr)                                    *)
(***************************************************************************)
\* the window [0x80000000, 0x88000000) read off the bits: bit 31 is set,
\* bits 27..30 are clear and nothing above bit 31 is set
InKernelWindow(a) == a \cap (27 .. (XLEN - 1)) = {31}

\* C1: for every addr in [KERNEL_BASE_ADDRESS, PHYSICAL_MEMORY_LIMIT), with
\* KERNEL_BASE_ADDRESS = 0x80000000 and PHYSICAL_MEMORY_LIMIT = base + 128 MiB,
\* ValidAddress::new(addr) returns Ok(v) and v.get() = addr.
C1_InWindowRoundTrips ==
    /\ KERNEL_BASE_ADDRESS = {31}
    /\ PHYSICAL_MEMORY_LIMIT = {31, 27}
    /\ (call.op = "ValidAddress::new" /\ InKernelWindow(call.arg))
          => (call.ret.tag = "Ok" /\ ValidAddress_get(call.ret.val) = call.arg)

\* ValidAddress::new was called on both ends of the window: the witnesses
\* are the base itself and, for the record, the last address of the window
C1_Witness ==
    /\ call.op = "ValidAddress::new"
    /\ call.arg = {31}
    /\ call.ret.tag = "Ok"
    /\ held = ValidAddress({31})

\* C2: for every addr outside the window (0, 0x7FFFFFFF, the limit itself, ...)
\* ValidAddress::new(addr) returns Err and yields no ValidAddress; an Ok
\* result never carries a value other than the input (no clamping).
C2_OutsideWindowFails ==
    /\ (call.op = "ValidAddress::new" /\ ~InKernelWindow(call.arg))
          => call.ret.tag = "Err"
    /\ (call.op = "ValidAddress::new" /\ call.ret.tag = "Ok")
          => ValidAddress_get(call.ret.val) = call.arg
    /\ held # None => InKernelWindow(ValidAddress_get(held))

\* ValidAddress::new was called on the exclusive upper bound and failed
C2_Witness ==
    /\ call.op = "ValidAddress::new"
    /\ call.arg = {31, 27}
    /\ call.ret.tag = "Err"

\* the registers whose writers take a ValidAddress
AddressRegisters == {MEPC, STVEC, SEPC, STVAL, PMPADDR0}

\* C12: after any sequence of calls to the address writers, every address
\* register that has been written holds a value in
\* [KERNEL_BASE_ADDRESS, PHYSICAL_MEMORY_LIMIT): a raw value outside the
\* window never reaches one of them.
C12_WrittenAddressesInWindow ==
    \A c \in AddressRegisters :
        lastw[c] # None =>
            /\ InKernelWindow(regs[c])
            /\ regs[c] = ValidAddress_get(lastw[c].val)

\* the last address of the window was written to mepc and to stval
C12_Witness ==
    /\ regs[MEPC] = {31} \cup (0 .. 26)
    /\ lastw[STVAL] # None
    /\ regs[STVAL] = {31} \cup (0 .. 26)
    /\ lastw[STVEC] = None
    /\ call.op = "write_stval"

\* C11: a ValidAddress is immutable and consumed by exactly one register
\* write: the value a caller got from one construction is never committed
\* by a second write, to the same register or to another one.
C11_ConsumedByOneWrite == held # None => uses <= 1

(***************************************************************************)
(* The boot path (SpecBoot): entry.rs, and start::start as section 4.4 of  *)
(* the specification describes it                                          *)
(***************************************************************************)
\* 4096-byte stack size: "li a0, 1024*4"
STACK_SIZE == 4096

\* mutant: the hart id is not incremented, so hart 0 is given stack0 itself
entry_sp_no_increment(mhartid) ==
    LET a1 == ToInt(mhartid)
        a0 == STACK_SIZE * a1
    IN  0 + a0

\* the stack pointer _entry computes, as the byte offset above stack0:
\* la sp, stack0; li a0, 4096; csrr a1, mhartid; addi a1, a1, 1;
\* mul a0, a0, a1; add sp, sp, a0
entry_sp(mhartid) ==
    LET a1 == ToInt(mhartid) + 1
        a0 == STACK_SIZE * a1
    IN  0 + a0

\* entry.rs _entry: sp = stack0 + 4096 * (mhartid + 1), then `call start`.
\* sp is kept as the byte offset above stack0.
_entry ==
    /\ pc = "Reset"
    /\ sp' = entry_sp(read_csr(regs, MHARTID))
    /\ pc' = "HartIdentified"
    /\ call' = [op |-> "_entry", arg |-> None, ret |-> None]
    /\ UNCHANGED <<regs, lastw, csrw, held, uses, nops, entry, verr, started>>

\* mutant: the sequencer entered with no single-shot guard
StartStatus_no_guard ==
    /\ pc \in {"HartIdentified", "SupervisorMode", "Halted"}
    /\ started' = TRUE
    /\ LET mpp == [ty |-> "PrivilegeMode", name |-> "SMV"]
           mpie == [ty |-> "PreviousInterruptEnable", name |-> "MPIE"]
       IN  /\ regs' = FieldWrite(FieldWrite(regs, MSTATUS, mpp), MSTATUS, mpie)
           /\ lastw' = [lastw EXCEPT ![MSTATUS] = Some(mpie)]
    /\ csrw' = csrw + 2
    /\ pc' = "StatusConfigured"
    /\ call' = [op |-> "start", arg |-> None, ret |-> Ok(None)]
    /\ UNCHANGED <<held, uses, nops, sp, entry, verr>>

\* start(): the single-shot guard, then the status step: write_mstatus with
\* previous-privilege = supervisor, write_mstatus with previous-interrupt-enable.
\* It is entered from _entry, and again by whoever invokes the sequencer a
\* second time once the first run has ended.
StartStatus ==
    /\ pc \in {"HartIdentified", "SupervisorMode", "Halted"}
    /\ IF started
       THEN /\ call' = [op |-> "start", arg |-> None, ret |-> Err("boot sequence already run")]
            /\ UNCHANGED <<regs, lastw, csrw, held, uses, nops, pc, sp, entry, verr, started>>
       ELSE /\ started' = TRUE
            /\ LET mpp == [ty |-> "PrivilegeMode", name |-> "SMV"]
                   mpie == [ty |-> "PreviousInterruptEnable", name |-> "MPIE"]
               IN  /\ regs' = FieldWrite(FieldWrite(regs, MSTATUS, mpp), MSTATUS, mpie)
                   /\ lastw' = [lastw EXCEPT ![MSTATUS] = Some(mpie)]
            /\ csrw' = csrw + 2
            /\ pc' = "StatusConfigured"
            /\ call' = [op |-> "start", arg |-> None, ret |-> Ok(None)]
            /\ UNCHANGED <<held, uses, nops, sp, entry, verr>>

\* mutant: the delegation step also taken from HartIdentified
Delegation_skips_status ==
    /\ pc \in {"HartIdentified", "StatusConfigured"}
    /\ \E e \in Variants(MedelegField), i \in Variants(MidelegField) :
          /\ regs' = FieldWrite(FieldWrite(regs, MEDELEG, e), MIDELEG, i)
          /\ lastw' = [lastw EXCEPT ![MEDELEG] = Some(e), ![MIDELEG] = Some(i)]
          /\ call' = [op |-> "write_mideleg", arg |-> i, ret |-> None]
    /\ csrw' = csrw + 2
    /\ pc' = "DelegationConfigured"
    /\ UNCHANGED <<held, uses, nops, sp, entry, verr, started>>

\* the delegation step: write_medeleg and write_mideleg, each with a cause
\* supervisor mode is to field
Delegation ==
    /\ pc = "StatusConfigured"
    /\ \E e \in Variants(MedelegField), i \in Variants(MidelegField) :
          /\ regs' = FieldWrite(FieldWrite(regs, MEDELEG, e), MIDELEG, i)
          /\ lastw' = [lastw EXCEPT ![MEDELEG] = Some(e), ![MIDELEG] = Some(i)]
          /\ call' = [op |-> "write_mideleg", arg |-> i, ret |-> None]
    /\ csrw' = csrw + 2
    /\ pc' = "DelegationConfigured"
    /\ UNCHANGED <<held, uses, nops, sp, entry, verr, started>>

\* mutant: the Err of ValidAddress::new is discarded and the sequence goes on
EntryPoint_ignores_err ==
    /\ pc = "DelegationConfigured"
    /\ LET r == ValidAddress_new(entry) IN
       /\ call' = [op |-> "ValidAddress::new", arg |-> entry, ret |-> r]
       /\ verr' = (r.tag = "Err")
       /\ held' = IF r.tag = "Ok" THEN r.val ELSE held
       /\ uses' = IF r.tag = "Ok" THEN 1 ELSE uses
       /\ regs' = IF r.tag = "Ok" THEN write_csr(regs, MEPC, ValidAddress_get(r.val)) ELSE regs
       /\ lastw' = IF r.tag = "Ok" THEN [lastw EXCEPT ![MEPC] = Some(r.val)] ELSE lastw
       /\ csrw' = IF r.tag = "Ok" THEN csrw + 1 ELSE csrw
       /\ pc' = "EntryPointSet"
    /\ UNCHANGED <<nops, sp, entry, started>>

\* the entry-point step: ValidAddress::new on the supervisor entry address;
\* on Ok write_mepc, on Err the hart halts in spin()
EntryPoint ==
    /\ pc = "DelegationConfigured"
    /\ LET r == ValidAddress_new(entry) IN
       /\ call' = [op |-> "ValidAddress::new", arg |-> entry, ret |-> r]
       /\ IF r.tag = "Ok"
          THEN /\ held' = r.val
               /\ uses' = 1
               /\ regs' = write_csr(regs, MEPC, ValidAddress_get(r.val))
               /\ lastw' = [lastw EXCEPT ![MEPC] = Some(r.val)]
               /\ csrw' = csrw + 1
               /\ pc' = "EntryPointSet"
               /\ UNCHANGED verr
          ELSE /\ verr' = TRUE
               /\ pc' = "Halted"
               /\ UNCHANGED <<regs, lastw, csrw, held, uses>>
    /\ UNCHANGED <<nops, sp, entry, started>>

\* the privilege-return instruction (mret)
PrivilegeReturn ==
    /\ pc = "EntryPointSet"
    /\ pc' = "SupervisorMode"
    /\ call' = [op |-> "mret", arg |-> None, ret |-> None]
    /\ UNCHANGED <<regs, lastw, csrw, held, uses, nops, sp, entry, verr, started>>

\* entry.rs spin: loop { j spin }
spin ==
    /\ pc = "Halted"
    /\ call' = [op |-> "spin", arg |-> None, ret |-> None]
    /\ UNCHANGED <<regs, lastw, csrw, held, uses, nops, pc, sp, entry, verr, started>>

\* a hart at reset: its id in mhartid, the entry address of the boot image
BootInit ==
    /\ \E r \in ResetWords, h \in 0 .. MaxHart :
          regs = [c \in CSRs |-> IF c = MHARTID THEN Lit(h) ELSE r]
    /\ lastw = [c \in CSRs |-> None]
    /\ csrw = 0
    /\ call = NoCall
    /\ held = None
    /\ uses = 0
    /\ nops = 0
    /\ pc = "Reset"
    /\ sp = 0
    /\ entry \in AddrInputs
    /\ verr = FALSE
    /\ started = FALSE

BootNext ==
    \/ _entry
    \/ StartStatus
    \/ Delegation
    \/ EntryPoint
    \/ PrivilegeReturn
    \/ spin

SpecBoot == BootInit /\ [][BootNext]_vars

(***************************************************************************)
(* Claims about the boot sequence (SpecBoot)                               *)
(***************************************************************************)
SequenceStates ==
    <<"Reset", "HartIdentified", "StatusConfigured", "DelegationConfigured",
      "EntryPointSet", "SupervisorMode">>

Rank(p) == CHOOSE i \in DOMAIN SequenceStates : SequenceStates[i] = p

\* C7: the boot sequence is linear: every change of position goes from one
\* of the six states to exactly the next one (or out of the sequence, to the
\* halt that a validator failure causes), SupervisorMode is terminal, and the
\* work is done in that order: the hart id is read (the stack is set up)
\* before mstatus is written, mstatus before the delegation registers, those
\* before mepc, mepc before the privilege-return.
C7_LinearSequence ==
    /\ [][(pc' # pc) =>
            ((pc \notin {"SupervisorMode", "Halted"})
             /\ (pc' = "Halted" \/ Rank(pc') = Rank(pc) + 1))]_vars
    /\ [](/\ (sp # 0) <=> (pc # "Reset")
          /\ (lastw[MSTATUS] # None) <=> (pc \notin {"Reset", "HartIdentified"})
          /\ (lastw[MEDELEG] # None /\ lastw[MIDELEG] # None)
                <=> (pc \notin {"Reset", "HartIdentified", "StatusConfigured"})
          /\ (lastw[MEDELEG] # None \/ lastw[MIDELEG] # None)
                => (pc \notin {"Reset", "HartIdentified", "StatusConfigured"})
          /\ (lastw[MEPC] # None) <=> (pc \in {"EntryPointSet", "SupervisorMode"}))

\* hart 2 went through the whole sequence into supervisor mode
C7_Witness ==
    /\ pc = "SupervisorMode"
    /\ call.op = "mret"
    /\ regs[MHARTID] = {1}
    /\ sp = 3 * STACK_SIZE
    /\ regs[MEPC] = entry
    /\ csrw = 5

\* C8: a validator failure during the boot sequence halts the hart: from the
\* Err of ValidAddress::new on, the hart is in the halt loop, executes no
\* privilege-return and no further register write, and the failure is never
\* cleared (no retry).
C8_ValidationFailureHalts ==
    /\ []((call.op = "ValidAddress::new" /\ call.ret.tag = "Err") => verr)
    /\ [](verr => pc = "Halted")
    /\ [][verr => (verr' /\ pc' = "Halted" /\ regs' = regs /\ csrw' = csrw)]_vars

\* the entry address was the exclusive limit of the window: the hart spins
\* with mepc never written
C8_Witness ==
    /\ verr
    /\ pc = "Halted"
    /\ call.op = "spin"
    /\ entry = {27, 31}
    /\ lastw[MEPC] = None
    /\ lastw[MIDELEG] # None

\* C9: the boot sequence runs at most once per hart: an invocation of the
\* sequencer after it has started is rejected with an explicit error and
\* writes no register, and once the run has ended no register is written
\* and the position never changes again.
C9_SingleShot ==
    /\ [][(started /\ call'.op = "start") =>
            (call'.ret.tag = "Err" /\ regs' = regs /\ lastw' = lastw
             /\ csrw' = csrw /\ pc' = pc)]_vars
    /\ [][(pc \in {"SupervisorMode", "Halted"}) =>
            (regs' = regs /\ csrw' = csrw /\ pc' = pc /\ started')]_vars

\* the sequencer was invoked again after the handoff and rejected
C9_Witness ==
    /\ pc = "SupervisorMode"
    /\ started
    /\ call.op = "start"
    /\ call.ret.tag = "Err"
    /\ csrw = 5

\* the previous-interrupt-enable bits of mstatus: UPIE, SPIE, MPIE
PreviousEnableBits ==
    PreviousInterruptEnable.UPIE \cup PreviousInterruptEnable.SPIE
        \cup PreviousInterruptEnable.MPIE

\* mstatus has previous-privilege = supervisor and a previous-interrupt-enable bit
BothStatusFields(mstatus) ==
    /\ mstatus \cap MPP_MASK = PrivilegeMode.SMV
    /\ mstatus \cap PreviousEnableBits # {}

\* C13: when the boot sequence executes the privilege-return, mstatus holds
\* both fields at once: previous-privilege equal to supervisor and the
\* previous-interrupt-enable bit set, as the status step wrote them through
\* write_mstatus.
C13_StatusHoldsBothFields ==
    pc = "EntryPointSet" => BothStatusFields(regs[MSTATUS])

\* the 4096-byte regions (a - 4096, a] and (b - 4096, b] share no byte
DisjointStacks(a, b) == a <= b - STACK_SIZE \/ b <= a - STACK_SIZE

\* C14: _entry gives hart h the stack pointer stack0 + 4096 * (h + 1) before
\* start is called: the region (sp - 4096, sp] does not start below stack0
\* (hart 0 gets stack0 + 4096), and it is disjoint from the region _entry
\* gives to any other hart id.
C14_PerHartStacks ==
    pc # "Reset" =>
        LET h == ToInt(regs[MHARTID]) IN
        /\ sp = STACK_SIZE * (h + 1)
        /\ sp - STACK_SIZE >= 0
        /\ \A g \in 0 .. MaxHart :
              g # h => DisjointStacks(sp, entry_sp(Lit(g)))

\* hart 0 has been given stack0 + 4096 and start has not run yet
C14_Witness ==
    /\ pc = "HartIdentified"
    /\ call.op = "_entry"
    /\ regs[MHARTID] = Zero
    /\ sp = STACK_SIZE
    /\ ~started

====
